---- MODULE Spec2Model ----
(***************************************************************************)
(* Model of src/main.py: the hot-list refresh pipeline (update_hot_list),  *)
(* its scheduler loop (background_scheduler) and the read endpoints.       *)
(*                                                                         *)
(* Two threads of control share the global hot_list_cache:                 *)
(*   - the asyncio task running background_scheduler (the only writer);    *)
(*   - a worker thread running the synchronous endpoint handlers.          *)
(***************************************************************************)
EXTENDS Integers, Sequences, FiniteSets, TLC

VARIABLES
    hot_list_cache,  \* the global list (main.py:19)
    pc,              \* position of the background_scheduler task
    events,          \* local `events` of update_hot_list (main.py:45)
    i,               \* position of the `for event in events` iterator (main.py:55)
    scored_events,   \* local `scored_events` of update_hot_list (main.py:54)
    exc,             \* exception in flight out of update_hot_list ("none" if none)
    rpc,             \* position of the request handler thread
    reply,           \* the response the handler is building, then returned
    upstream,        \* history: the upstream response of the current cycle
    cache_before,    \* history: hot_list_cache when the current cycle started
    outcome,         \* history: how the current cycle ended
    published,       \* history: the value assigned by the last execution of main.py:103
    after_failure    \* history: the cycle before the current one published nothing

vars == <<hot_list_cache, pc, events, i, scored_events, exc, rpc, reply,
          upstream, cache_before, outcome, published, after_failure>>

schedVars == <<hot_list_cache, pc, events, i, scored_events, exc, upstream,
               cache_before, outcome, published, after_failure>>

readVars == <<rpc, reply>>

----------------------------------------------------------------------------
(* Bounds of the model and constants of the program.                        *)

\* longest batch of the short feeds
MaxBatch == 2

\* length of the batches of tying events
TieLen == 7
\* longest batch of the liveness feed
LiveBatch == 1
\* the long feed holds batches of CacheCap - 1 .. CacheCap + MaxExtra events
MaxExtra == 1
\* scored_events[:50] (main.py:103)
CacheCap == 50
\* G = 1.8 = GravityNum / GravityDen (main.py:70)
GravityNum == 9
GravityDen == 5
\* T + 2 (main.py:76)
AgeOffset == 2

----------------------------------------------------------------------------
(* JSON values as the handler sees them.  A string is kept as the list of   *)
(* pieces str.split(" ") returns for it, so the empty string is <<"">>.     *)

JAbsent == [k |-> "absent", n |-> 0, s |-> <<>>]
JNull == [k |-> "null", n |-> 0, s |-> <<>>]
JInt(n) == [k |-> "int", n |-> n, s |-> <<>>]
JBigInt == [k |-> "bigint", n |-> 0, s |-> <<>>]
JStr(toks) == [k |-> "str", n |-> 0, s |-> toks]

\* dict.get(key, default): the default only when the key is absent
Get(v, default) == IF v.k = "absent" THEN default ELSE v

\* a JSON object of `articles`
Obj(title, imp, ts) ==
    [type |-> "object", group_title |-> title, group_summary |-> title,
     importance |-> imp, earliest_published |-> ts]

\* a JSON string standing where an object is expected
NonObj(title) ==
    [type |-> "string", group_title |-> title, group_summary |-> title,
     importance |-> JAbsent, earliest_published |-> JAbsent]

----------------------------------------------------------------------------
(* float(), datetime.strptime() and the score.                              *)

Min(a, b) == IF a < b THEN a ELSE b

RECURSIVE Pow(_, _)
Pow(x, n) == IF n = 0 THEN 1 ELSE x * Pow(x, n - 1)

\* float(str) for the strings of the model: decimal literals, "nan", others
StrToFloat(toks) ==
    IF Len(toks) # 1 THEN [exc |-> "ValueError", nan |-> FALSE, num |-> 0]
    ELSE CASE toks[1] = "1" -> [exc |-> "none", nan |-> FALSE, num |-> 1]
           [] toks[1] = "3" -> [exc |-> "none", nan |-> FALSE, num |-> 3]
           [] toks[1] = "nan" -> [exc |-> "none", nan |-> TRUE, num |-> 0]
           [] OTHER -> [exc |-> "ValueError", nan |-> FALSE, num |-> 0]

\* float() giving 0 for what it cannot convert
FloatOrZero(v) ==
    CASE v.k = "int" -> [exc |-> "none", nan |-> FALSE, num |-> v.n]
      [] v.k = "str" /\ StrToFloat(v.s).exc = "none" -> StrToFloat(v.s)
      [] OTHER -> [exc |-> "none", nan |-> FALSE, num |-> 0]

\* float(x) at main.py:58
Float(v) ==
    CASE v.k = "int" -> [exc |-> "none", nan |-> FALSE, num |-> v.n]
      [] v.k = "str" -> StrToFloat(v.s)
      [] v.k = "bigint" -> [exc |-> "OverflowError", nan |-> FALSE, num |-> 0]
      [] OTHER -> [exc |-> "TypeError", nan |-> FALSE, num |-> 0]

\* %Y-%m-%d: the day number of a date piece, -1 when it does not match
DateValue(tok) ==
    CASE tok = "2025-06-18" -> 0
      [] tok = "2025-06-19" -> 1
      [] OTHER -> -1

\* %H:%M:%S: the hour of a time piece, -1 when it does not match
TimeValue(tok) ==
    CASE tok = "08:00:00" -> 8
      [] tok = "09:00:00" -> 9
      [] tok = "11:00:00" -> 11
      [] OTHER -> -1

\* " ".join(s.split(" ")[0:2]) then strptime(..., "%Y-%m-%d %H:%M:%S"), in hours
Strptime(toks) ==
    LET part == SubSeq(toks, 1, Min(2, Len(toks)))
    IN IF Len(part) = 2 /\ DateValue(part[1]) >= 0 /\ TimeValue(part[2]) >= 0
       THEN [exc |-> "none", hours |-> DateValue(part[1]) * 24 + TimeValue(part[2])]
       ELSE [exc |-> "ValueError", hours |-> 0]

\* the age without the clamp of main.py:73-74
AgeNoClamp(now, publish_date) == now - publish_date

\* T of main.py:68-74: age in hours, clamped at 0
Age(now, publish_date) == IF now - publish_date < 0 THEN 0 ELSE now - publish_date

\* the float P / ((T + 2) ** G), kept as the pair it is computed from
Score(P, T) == [nan |-> P.nan, P |-> P.num, T |-> T]

\* a < b on floats: false whenever one side is NaN; otherwise
\* P1/(T1+2)^(9/5) < P2/(T2+2)^(9/5)  iff  P1^5 (T2+2)^9 < P2^5 (T1+2)^9
ScoreLt(a, b) ==
    /\ ~a.nan
    /\ ~b.nan
    /\ Pow(a.P, GravityDen) * Pow(b.T + AgeOffset, GravityNum)
         < Pow(b.P, GravityDen) * Pow(a.T + AgeOffset, GravityNum)

\* a >= b on floats
ScoreGe(a, b) ==
    /\ ~a.nan
    /\ ~b.nan
    /\ Pow(a.P, GravityDen) * Pow(b.T + AgeOffset, GravityNum)
         >= Pow(b.P, GravityDen) * Pow(a.T + AgeOffset, GravityNum)

NoItem == [title |-> "", summary |-> "", published_at |-> JNull,
           score |-> [nan |-> FALSE, P |-> 0, T |-> 0]]

\* the body of the per-event try block (main.py:56-84) for one event
ScoreOne(event, now) ==
    IF event.type # "object" THEN [exc |-> "AttributeError", item |-> NoItem]
    ELSE LET P == Float(Get(event.importance, JInt(0)))
             ts == Get(event.earliest_published, JStr(<<"">>))
         IN IF P.exc # "none" THEN [exc |-> P.exc, item |-> NoItem]
            ELSE IF ts.k # "str" THEN [exc |-> "AttributeError", item |-> NoItem]
            ELSE LET publish_date == Strptime(ts.s)
                 IN IF publish_date.exc # "none"
                    THEN [exc |-> publish_date.exc, item |-> NoItem]
                    ELSE [exc |-> "none",
                          item |-> [title |-> event.group_title,
                                    summary |-> event.group_summary,
                                    published_at |-> event.earliest_published,
                                    score |-> Score(P, Age(now, publish_date.hours))]]

\* the per-event except clause without ValueError
HandledNoValueError(e) == e \in {"TypeError", "KeyError"}

\* except (ValueError, TypeError, KeyError) at main.py:92
Handled(e) == e \in {"ValueError", "TypeError", "KeyError"}

\* the loop's except clause catching only what the per-event clause catches
SchedulerCatchesFew(e) == e \in {"ValueError", "KeyError"}

\* except Exception at main.py:122
SchedulerCatches(e) == e \in {"ValueError", "TypeError", "KeyError",
                              "AttributeError", "OverflowError"}

----------------------------------------------------------------------------
(* list.sort(key=lambda x: x["score"], reverse=True) at main.py:99, as      *)
(* CPython runs it on a list of fewer than 64 items: reverse the list, find *)
(* the leading run, binary-insert the rest using only `<` on the keys,      *)
(* reverse again.                                                           *)

Reverse(s) == [k \in 1..Len(s) |-> s[Len(s) + 1 - k]]

KeyLt(x, y) == ScoreLt(x.score, y.score)

\* count_run: the last index of the run that starts at 1
RECURSIVE RunEnd(_, _, _)
RunEnd(s, j, descending) ==
    IF j > Len(s) THEN Len(s)
    ELSE IF KeyLt(s[j], s[j - 1]) = descending THEN RunEnd(s, j + 1, descending)
    ELSE j - 1

\* binarysort's search: where the pivot goes in the sorted prefix l..r-1
RECURSIVE BinPos(_, _, _, _)
BinPos(s, pivot, l, r) ==
    LET p == l + ((r - l) \div 2)
        l2 == IF KeyLt(pivot, s[p]) THEN l ELSE p + 1
        r2 == IF KeyLt(pivot, s[p]) THEN p ELSE r
    IN IF l2 < r2 THEN BinPos(s, pivot, l2, r2) ELSE l2

\* binarysort: s[1..start-1] is sorted, insert s[start..] one by one
RECURSIVE BinarySort(_, _)
BinarySort(s, start) ==
    IF start > Len(s) THEN s
    ELSE LET at == BinPos(s, s[start], 1, start)
             moved == SubSeq(s, 1, at - 1) \o <<s[start]>>
                        \o SubSeq(s, at, start - 1) \o SubSeq(s, start + 1, Len(s))
         IN BinarySort(moved, start + 1)

\* the ascending stable sort of a short list
SortAscending(s) ==
    IF Len(s) < 2 THEN s
    ELSE LET descending == KeyLt(s[2], s[1])
             n == RunEnd(s, 3, descending)
             run == IF descending
                    THEN Reverse(SubSeq(s, 1, n)) \o SubSeq(s, n + 1, Len(s))
                    ELSE s
         IN BinarySort(run, n + 1)

\* scored_events.sort(key=..., reverse=True)
ListSort(s) == Reverse(SortAscending(Reverse(s)))

\* the slice without its bound
TruncateNone(s) == s

\* scored_events[:50] (main.py:103)
Truncate(s) == SubSeq(s, 1, Min(CacheCap, Len(s)))

----------------------------------------------------------------------------
(* The upstream: what one GET of /api/events can come back with.            *)

NoResponse == [net |-> "none", status |-> 0, json |-> "none",
               articles |-> [k |-> "absent", items |-> <<>>]]

\* httpx.RequestError: connection error, timeout
NetFail == [net |-> "RequestError", status |-> 0, json |-> "none",
            articles |-> [k |-> "absent", items |-> <<>>]]

\* a 500 answer: raise_for_status() raises httpx.HTTPStatusError
Http500 == [net |-> "ok", status |-> 500, json |-> "none",
            articles |-> [k |-> "absent", items |-> <<>>]]

\* a 200 answer whose body is no JSON: response.json() raises
BadJson == [net |-> "ok", status |-> 200, json |-> "invalid",
            articles |-> [k |-> "absent", items |-> <<>>]]

\* a 200 answer whose body is a JSON array: data.get raises AttributeError
JsonArray == [net |-> "ok", status |-> 200, json |-> "array",
              articles |-> [k |-> "absent", items |-> <<>>]]

\* a 200 answer whose body is a JSON object
OkResp(articles) == [net |-> "ok", status |-> 200, json |-> "object",
                     articles |-> articles]

NoArticles == [k |-> "absent", items |-> <<>>]
NullArticles == [k |-> "null", items |-> <<>>]
Articles(batch) == [k |-> "list", items |-> batch]

Unset == [k |-> "unset", items |-> <<>>]

SeqsUpTo(S, n) == UNION {[1..k -> S] : k \in 0..n}

FailedResponses == {NetFail, Http500, BadJson, JsonArray}

\* every failure, the two odd `articles`, and every batch of up to n events of evs
Feed(evs, n) ==
    FailedResponses \cup {OkResp(NoArticles), OkResp(NullArticles)}
        \cup {OkResp(Articles(b)) : b \in SeqsUpTo(evs, n)}

\* FetchBlock with the early returns lost: a failed fetch goes on as no events
FetchBlockNoReturn(resp) ==
    [failed |-> FALSE,
     events |-> IF resp.net = "ok" /\ resp.status \in 200..299
                   /\ resp.json = "object" /\ resp.articles.k # "absent"
                THEN resp.articles ELSE Articles(<<>>)]

\* FetchBlock returning early on an empty or missing `articles` as well
FetchBlockSkipEmpty(resp) ==
    IF resp.net # "ok" \/ resp.status \notin 200..299 \/ resp.json # "object"
       \/ resp.articles.k = "absent" \/ resp.articles = Articles(<<>>)
    THEN [failed |-> TRUE, events |-> Unset]
    ELSE [failed |-> FALSE, events |-> resp.articles]

\* the try block of main.py:33-52: did it return early, and `events` if not
FetchBlock(resp) ==
    IF resp.net # "ok" THEN [failed |-> TRUE, events |-> Unset]
    ELSE IF resp.status \notin 200..299 THEN [failed |-> TRUE, events |-> Unset]
    ELSE IF resp.json # "object" THEN [failed |-> TRUE, events |-> Unset]
    ELSE [failed |-> FALSE,
          events |-> IF resp.articles.k = "absent" THEN Articles(<<>>)
                     ELSE resp.articles]

----------------------------------------------------------------------------
(* The background task: background_scheduler running update_hot_list.       *)

\* main.py:121 and 26-40: the call, up to the await of client.get
StartUpdate ==
    /\ pc = "call"
    /\ pc' = "fetch"
    /\ outcome' = "running"
    /\ UNCHANGED <<hot_list_cache, events, i, scored_events, exc, upstream,
                   cache_before, published, after_failure, readVars>>

\* the fetch handing the loop the old snapshot to append to, not a fresh list
FetchReturnAppend(feed) ==
    /\ pc = "fetch"
    /\ \E resp \in feed :
         /\ upstream' = resp
         /\ IF FetchBlock(resp).failed
            THEN /\ pc' = "sleep"
                 /\ outcome' = "fetch_failed"
                 /\ UNCHANGED <<events, scored_events, i>>
            ELSE /\ pc' = "rank"
                 /\ events' = FetchBlock(resp).events
                 /\ scored_events' = hot_list_cache
                 /\ i' = 1
                 /\ UNCHANGED outcome
    /\ UNCHANGED <<hot_list_cache, exc, cache_before, published, after_failure,
                   readVars>>

\* main.py:40-54: the GET comes back (or fails); an early return leads to the sleep
FetchReturn(feed) ==
    /\ pc = "fetch"
    /\ \E resp \in feed :
         /\ upstream' = resp
         /\ IF FetchBlock(resp).failed
            THEN /\ pc' = "sleep"
                 /\ outcome' = "fetch_failed"
                 /\ UNCHANGED <<events, scored_events, i>>
            ELSE /\ pc' = "rank"
                 /\ events' = FetchBlock(resp).events
                 /\ scored_events' = <<>>
                 /\ i' = 1
                 /\ UNCHANGED outcome
    /\ UNCHANGED <<hot_list_cache, exc, cache_before, published, after_failure,
                   readVars>>

\* main.py:55-96: one turn of the for loop, on the locals
RankLoop(clock) ==
    /\ pc = "rank"
    /\ IF events.k # "list"
       THEN \* iter(None): TypeError outside the per-event try
            /\ exc' = "TypeError"
            /\ pc' = "except"
            /\ events' = Unset
            /\ scored_events' = <<>>
            /\ i' = 1
       ELSE IF i > Len(events.items)
       THEN /\ pc' = "sort"
            /\ UNCHANGED <<events, i, scored_events, exc>>
       ELSE \E now \in clock :
              LET r == ScoreOne(events.items[i], now)
              IN IF r.exc = "none"
                 THEN /\ scored_events' = Append(scored_events, r.item)
                      /\ i' = i + 1
                      /\ UNCHANGED <<pc, events, exc>>
                 ELSE IF Handled(r.exc)
                 THEN /\ i' = i + 1
                      /\ UNCHANGED <<pc, events, scored_events, exc>>
                 ELSE /\ exc' = r.exc
                      /\ pc' = "except"
                      /\ events' = Unset
                      /\ scored_events' = <<>>
                      /\ i' = 1
    /\ UNCHANGED <<upstream, cache_before, outcome, published, after_failure,
                   readVars>>

\* the loop appending to the global list instead of a local one
RankStepInPlace(clock) ==
    /\ RankLoop(clock)
    /\ hot_list_cache' = scored_events'

\* main.py:55-96: one turn of the for loop; the global is not touched
RankStep(clock) ==
    /\ RankLoop(clock)
    /\ UNCHANGED hot_list_cache

\* main.py:99
SortStep ==
    /\ pc = "sort"
    /\ scored_events' = ListSort(scored_events)
    /\ pc' = "publish"
    /\ UNCHANGED <<hot_list_cache, events, i, exc, upstream, cache_before,
                   outcome, published, after_failure, readVars>>

\* a publish that keeps the old snapshot when the ranking came out empty
PublishNonEmpty ==
    /\ pc = "publish"
    /\ hot_list_cache' = IF scored_events = <<>> THEN hot_list_cache
                         ELSE Truncate(scored_events)
    /\ published' = hot_list_cache'
    /\ outcome' = "published"
    /\ pc' = "sleep"
    /\ events' = Unset
    /\ scored_events' = <<>>
    /\ i' = 1
    /\ UNCHANGED <<exc, upstream, cache_before, after_failure, readVars>>

\* main.py:102-109: the assignment to the global, the log line, the return
Publish ==
    /\ pc = "publish"
    /\ hot_list_cache' = Truncate(scored_events)
    /\ published' = Truncate(scored_events)
    /\ outcome' = "published"
    /\ pc' = "sleep"
    /\ events' = Unset
    /\ scored_events' = <<>>
    /\ i' = 1
    /\ UNCHANGED <<exc, upstream, cache_before, after_failure, readVars>>

\* the except clause going round the loop at once, without the sleep
CatchInLoopContinue ==
    /\ pc = "except"
    /\ IF SchedulerCatches(exc)
       THEN pc' = "call" /\ outcome' = "raised"
       ELSE pc' = "crashed" /\ outcome' = "crashed"
    /\ exc' = "none"
    /\ UNCHANGED <<hot_list_cache, events, i, scored_events, upstream,
                   cache_before, published, after_failure, readVars>>

\* main.py:122-124: the except clause of the loop
CatchInLoop ==
    /\ pc = "except"
    /\ IF SchedulerCatches(exc)
       THEN pc' = "sleep" /\ outcome' = "raised"
       ELSE pc' = "crashed" /\ outcome' = "crashed"
    /\ exc' = "none"
    /\ UNCHANGED <<hot_list_cache, events, i, scored_events, upstream,
                   cache_before, published, after_failure, readVars>>

\* main.py:127 and 119: asyncio.sleep(15 * 60) is over, the loop goes round
TimerFires ==
    /\ pc = "sleep"
    /\ pc' = "call"
    /\ upstream' = NoResponse
    /\ outcome' = "none"
    /\ cache_before' = hot_list_cache
    /\ after_failure' = (outcome \in {"fetch_failed", "raised"})
    /\ UNCHANGED <<hot_list_cache, events, i, scored_events, exc, published,
                   readVars>>

Scheduler(feed, clock) ==
    \/ StartUpdate
    \/ FetchReturn(feed)
    \/ RankStep(clock)
    \/ SortStep
    \/ Publish
    \/ CatchInLoop
    \/ TimerFires

----------------------------------------------------------------------------
(* The request handlers, run by a worker thread (they are plain `def`s).    *)

NoReply == [kind |-> "none", retrieved_at_utc |-> 0, item_count |-> 0,
            data |-> <<>>]

\* main.py:152-153: the first two entries of the dict, len(hot_list_cache) among them
ReadCount(clock) ==
    /\ rpc = "idle"
    /\ \E now \in clock :
         reply' = [kind |-> "pending", retrieved_at_utc |-> now,
                   item_count |-> Len(hot_list_cache), data |-> <<>>]
    /\ rpc' = "counted"
    /\ UNCHANGED schedVars

\* a read that, finding the cache empty, wakes the scheduler for a refresh
ReadDataRefresh ==
    /\ rpc = "counted"
    /\ reply' = [reply EXCEPT !.kind = "hot-list", !.data = hot_list_cache]
    /\ rpc' = "responded"
    /\ pc' = IF pc = "sleep" /\ hot_list_cache = <<>> THEN "call" ELSE pc
    /\ UNCHANGED <<hot_list_cache, events, i, scored_events, exc, upstream,
                   cache_before, outcome, published, after_failure>>

\* main.py:154-155: the second read of the global, and the return
ReadData ==
    /\ rpc = "counted"
    /\ reply' = [reply EXCEPT !.kind = "hot-list", !.data = hot_list_cache]
    /\ rpc' = "responded"
    /\ UNCHANGED schedVars

\* main.py:159-163
HealthCheck ==
    /\ rpc = "idle"
    /\ reply' = [kind |-> "health", retrieved_at_utc |-> 0, item_count |-> 0,
                 data |-> <<>>]
    /\ rpc' = "responded"
    /\ UNCHANGED schedVars

\* the response has gone out; the worker takes the next request
Deliver ==
    /\ rpc = "responded"
    /\ reply' = NoReply
    /\ rpc' = "idle"
    /\ UNCHANGED schedVars

Reader(clock) ==
    \/ ReadCount(clock)
    \/ ReadData
    \/ HealthCheck
    \/ Deliver

----------------------------------------------------------------------------
(* Inputs and specifications.                                               *)

\* datetime.now(timezone.utc) in hours: 2025-06-18 11:00 (and an hour later)
NowFixed == {11}
NowDrift == {11, 12}

Stamp(date, time) == JStr(<<date, time>>)
StampWd(date, time) == JStr(<<date, time, "Wed">>)

EvA == Obj("a", JInt(3), StampWd("2025-06-18", "09:00:00"))
EvB == Obj("b", JInt(1), Stamp("2025-06-18", "11:00:00"))
EvNullTs == Obj("n", JInt(3), JNull)

CoreEvents == {EvA, EvB, EvNullTs}

CoreFeed == Feed(CoreEvents, MaxBatch)

\* main.py:19 and 134-138: empty cache, the scheduler task about to run its first cycle
Init ==
    /\ hot_list_cache = <<>>
    /\ pc = "call"
    /\ events = Unset
    /\ i = 1
    /\ scored_events = <<>>
    /\ exc = "none"
    /\ rpc = "idle"
    /\ reply = NoReply
    /\ upstream = NoResponse
    /\ cache_before = <<>>
    /\ outcome = "none"
    /\ published = <<>>
    /\ after_failure = FALSE

Next == Scheduler(CoreFeed, NowFixed) \/ Reader(NowFixed)

Spec == Init /\ [][Next]_vars

\* the same program with batches of at most LiveBatch events, and the fairness
\* of the event loop: a step of the task that can be taken is taken
LiveFeed == Feed(CoreEvents, LiveBatch)

NextLive == Scheduler(LiveFeed, NowFixed) \/ Reader(NowFixed)

LiveSpec == Init /\ [][NextLive]_vars /\ WF_vars(Scheduler(LiveFeed, NowFixed))

\* batches around the cap: n well-formed events of alternating importance and age
LongBatch(n) ==
    [k \in 1..n |->
        Obj(ToString(k), JInt(IF k % 2 = 0 THEN 3 ELSE 1),
            Stamp("2025-06-18", IF k % 3 = 0 THEN "09:00:00" ELSE "11:00:00"))]

LongFeed ==
    {NetFail, OkResp(NullArticles), OkResp(Articles(<<EvA>>))}
        \cup {OkResp(Articles(LongBatch(n))) : n \in (CacheCap - 1)..(CacheCap + MaxExtra)}

NextCap == Scheduler(LongFeed, NowFixed) \/ Reader(NowFixed)

CapSpec == Init /\ [][NextCap]_vars

\* batches with every kind of malformed record; no requests arrive
EvNoImp == Obj("m", JAbsent, Stamp("2025-06-18", "09:00:00"))
EvNullImp == Obj("i", JNull, Stamp("2025-06-18", "09:00:00"))
EvBadImp == Obj("x", JStr(<<"abc">>), Stamp("2025-06-18", "09:00:00"))
EvBadTs == Obj("t", JInt(3), JStr(<<"not-a-date">>))
EvNoTs == Obj("u", JInt(3), JAbsent)
EvIntTs == Obj("v", JInt(3), JInt(20250618))
EvNonObj == NonObj("s")

MalEvents == {EvA, EvB, EvNoImp, EvNullImp, EvBadImp, EvBadTs, EvNoTs,
              EvNullTs, EvIntTs, EvNonObj}

MalFeed == Feed(MalEvents, MaxBatch)

NextMal == Scheduler(MalFeed, NowFixed)

MalSpec == Init /\ [][NextMal]_vars

\* batches of records that all pass the per-event checks; the clock moves
EvA2 == Obj("c", JStr(<<"3">>), StampWd("2025-06-18", "09:00:00"))
EvFuture == Obj("f", JInt(3), Stamp("2025-06-19", "08:00:00"))
EvNaN == Obj("q", JStr(<<"nan">>), Stamp("2025-06-18", "09:00:00"))

ScoreEvents == {EvA, EvA2, EvB, EvFuture, EvNaN}

ScoreFeed == Feed(ScoreEvents, MaxBatch)

NextScore == Scheduler(ScoreFeed, NowDrift)

ScoreSpec == Init /\ [][NextScore]_vars

\* batches of n events stamped alike: importance "nan" at position q, 3 at
\* position h, 1 everywhere else, so that all the others tie
TieBatch(n, q, h) ==
    [k \in 1..n |->
        Obj(ToString(k),
            IF k = q THEN JStr(<<"nan">>) ELSE IF k = h THEN JInt(3) ELSE JInt(1),
            Stamp("2025-06-18", "11:00:00"))]

TieFeed ==
    {NetFail, OkResp(NullArticles)}
        \cup {OkResp(Articles(TieBatch(TieLen, q, h))) :
                 q \in 1..TieLen, h \in 1..TieLen}

NextTie == Scheduler(TieFeed, NowFixed)

TieSpec == Init /\ [][NextTie]_vars

----------------------------------------------------------------------------
(* Properties.                                                              *)

\* the current cycle's fetch came back with a list of events
FetchedBatch == upstream.net = "ok" /\ upstream.status = 200
                /\ upstream.json = "object" /\ upstream.articles.k = "list"

Batch == upstream.articles.items

\* a record the per-event block can score: an object whose importance float()
\* accepts and whose earliest_published is a string matching the pattern
WellFormed(e) ==
    /\ e.type = "object"
    /\ Float(Get(e.importance, JInt(0))).exc = "none"
    /\ e.earliest_published.k = "str"
    /\ Strptime(e.earliest_published.s).exc = "none"

\* a record whose only flaw is an earliest_published string the pattern rejects
BadStampOnly(e) ==
    /\ e.type = "object"
    /\ Float(Get(e.importance, JInt(0))).exc = "none"
    /\ e.earliest_published.k = "str"
    /\ Strptime(e.earliest_published.s).exc # "none"

\* C1: in a cycle whose upstream call fails (connection error or timeout, non-2xx
\* status, a body that is no JSON, a JSON body that is no object), update_hot_list
\* returns without an exception, goes straight to the sleep, and hot_list_cache
\* is what it was when the cycle started.
C1_FetchFailureKeepsCache ==
    upstream \in FailedResponses =>
        /\ pc = "sleep"
        /\ exc = "none"
        /\ outcome = "fetch_failed"
        /\ hot_list_cache = cache_before

\* a cycle failed on a 500 answer while a non-empty snapshot was published
C1_Witness ==
    /\ upstream = Http500
    /\ pc = "sleep"
    /\ hot_list_cache # <<>>

\* C2: hot_list_cache always holds the value of the last complete publish (the
\* initial empty list before any), and the `data` a read returns is that value as
\* it stood at the moment of the read: never a list under construction.
C2_ReadIsolation ==
    /\ [](hot_list_cache = published)
    /\ [][(rpc = "counted" /\ rpc' = "responded") => reply'.data = published]_vars

\* a read answered with a non-empty snapshot while the next cycle was half-way
\* through its loop
C2_Witness ==
    /\ rpc = "responded"
    /\ reply.kind = "hot-list"
    /\ reply.data # <<>>
    /\ pc = "rank"
    /\ scored_events # <<>>
    /\ scored_events # reply.data

\* C3: in every response of GET /api/hot-list, item_count is the number of
\* entries of data.
C3_ConsistentRead ==
    reply.kind = "hot-list" => reply.item_count = Len(reply.data)

\* C4: after a cycle that fetched a batch of N records of which exactly one has an
\* earliest_published string the pattern rejects and the others are well formed,
\* the published snapshot has N - 1 entries (N - 1 <= 50) and none of them carries
\* the rejected string.
C4_MalformedIsolation ==
    (/\ pc = "sleep"
     /\ FetchedBatch
     /\ Cardinality({k \in DOMAIN Batch : BadStampOnly(Batch[k])}) = 1
     /\ \A k \in DOMAIN Batch : BadStampOnly(Batch[k]) \/ WellFormed(Batch[k])
     /\ Len(Batch) - 1 <= CacheCap)
    => /\ outcome = "published"
       /\ Len(hot_list_cache) = Len(Batch) - 1
       /\ \A j \in DOMAIN hot_list_cache : \A k \in DOMAIN Batch :
            BadStampOnly(Batch[k]) =>
                hot_list_cache[j].published_at # Batch[k].earliest_published

\* a batch of two whose first record has a bad time stamp, published as one entry
C4_Witness ==
    /\ pc = "sleep"
    /\ FetchedBatch
    /\ Len(Batch) = 2
    /\ BadStampOnly(Batch[1])
    /\ WellFormed(Batch[2])
    /\ outcome = "published"
    /\ Len(hot_list_cache) = 1

\* C5: after a cycle that fetched a batch, whatever malformed records it holds,
\* every well-formed record of the batch is in the snapshot (the batch being no
\* longer than the cap).
C5_MalformedNeverAborts ==
    (pc = "sleep" /\ FetchedBatch /\ Len(Batch) <= CacheCap)
    => \A k \in DOMAIN Batch :
         WellFormed(Batch[k]) =>
             \E j \in DOMAIN hot_list_cache :
                 hot_list_cache[j].title = Batch[k].group_title

\* a fetch that yields no events: a failure, no `articles`, an empty `articles`
EmptyFetch(resp) ==
    \/ resp \in FailedResponses
    \/ resp = OkResp(NoArticles)
    \/ resp = OkResp(Articles(<<>>))

\* C6 as stated: after a cycle whose fetch yields no events, the snapshot
\* published before is still in hot_list_cache when the scheduler sleeps.
C6_EmptyFetchKeepsCache ==
    (pc = "sleep" /\ EmptyFetch(upstream)) => hot_list_cache = cache_before

\* C6 amended: when the scheduler sleeps after a cycle whose fetch failed, ranking
\* and publish were skipped and hot_list_cache is what it was; after a cycle whose
\* fetch succeeded with no `articles` field or an empty `articles` list, the cycle
\* has published and hot_list_cache is the empty list.
C6_Amended ==
    pc = "sleep" =>
        /\ upstream \in FailedResponses =>
              (outcome = "fetch_failed" /\ hot_list_cache = cache_before)
        /\ upstream \in {OkResp(NoArticles), OkResp(Articles(<<>>))} =>
              (outcome = "published" /\ hot_list_cache = <<>>)

\* a response without `articles` has emptied a non-empty snapshot
C6_Witness ==
    /\ pc = "sleep"
    /\ upstream = OkResp(NoArticles)
    /\ cache_before # <<>>
    /\ hot_list_cache = <<>>

\* C7: under the fairness of the event loop the scheduler reaches the sleep after
\* every cycle, whatever happened in it, and starts a cycle again and again.
C7_SchedulerNeverStops ==
    /\ [](pc # "sleep" => <>(pc = "sleep"))
    /\ []<>(pc = "call")

\* the scheduler sleeps after a cycle in which an exception left update_hot_list
C7_Witness ==
    /\ pc = "sleep"
    /\ outcome = "raised"

C9_AtMostFifty ==
    /\ Len(hot_list_cache) <= CacheCap
    /\ reply.item_count \in 0..CacheCap
    /\ Len(reply.data) <= CacheCap

\* a batch of more than 50 well-formed records was published as 50 entries
C9_Witness ==
    /\ pc = "sleep"
    /\ outcome = "published"
    /\ FetchedBatch
    /\ Len(Batch) > CacheCap
    /\ Len(hot_list_cache) = CacheCap

\* C10: for all adjacent positions of hot_list_cache, the score of the first is
\* greater than or equal to the score of the second.
C10_SortedDescending ==
    \A j \in 1..(Len(hot_list_cache) - 1) :
        ScoreGe(hot_list_cache[j].score, hot_list_cache[j + 1].score)

\* the number of records of the batch the per-event block can score
WellFormedCount == Cardinality({k \in DOMAIN Batch : WellFormed(Batch[k])})

\* C11: after a cycle that fetched a batch with k well-formed records the snapshot
\* has exactly min(k, 50) entries, and at the slice of main.py:103 no entry past
\* the 50th has a score strictly greater than one of the first 50.
C11_TopN ==
    /\ (pc = "sleep" /\ FetchedBatch) =>
           Len(hot_list_cache) = Min(WellFormedCount, CacheCap)
    /\ pc = "publish" =>
           \A m \in 1..Min(CacheCap, Len(scored_events)) :
               \A j \in (CacheCap + 1)..Len(scored_events) :
                   ~ScoreLt(scored_events[m].score, scored_events[j].score)

\* the record the for loop is about to handle
LoopAt == pc = "rank" /\ events.k = "list" /\ i <= Len(events.items)

Current == events.items[i]

\* the loop handles the current record in this step
LoopTurn == LoopAt /\ (i' # i \/ pc' # pc)

\* earliest_published is a string the pattern accepts
StampOk(e) ==
    /\ e.earliest_published.k = "str"
    /\ Strptime(e.earliest_published.s).exc = "none"

\* importance is there and is null or a string that is not a number
NotCoercible(e) ==
    \/ e.importance.k = "null"
    \/ e.importance.k = "str" /\ StrToFloat(e.importance.s).exc = "ValueError"

\* the step appends the current record to scored_events with P = 0
AppendedWithZero ==
    /\ Len(scored_events') = Len(scored_events) + 1
    /\ scored_events'[Len(scored_events')].title = Current.group_title
    /\ scored_events'[Len(scored_events')].score.P = 0
    /\ ~scored_events'[Len(scored_events')].score.nan
    /\ pc' = "rank"

\* C12 as stated: a record whose importance is missing or cannot be coerced to
\* a number (its time stamp being fine) is scored with P = 0, neither dropped
\* nor failing.
C12_ImportanceDefaultsToZero ==
    [][(/\ LoopTurn
        /\ Current.type = "object"
        /\ Current.importance.k = "absent" \/ NotCoercible(Current)
        /\ StampOk(Current))
       => AppendedWithZero]_vars

\* C12 amended: a record whose importance is missing (its time stamp being fine)
\* is scored with P = 0; a record whose importance is null or a string that is no
\* number is dropped by the per-event handler: nothing is appended, no exception
\* leaves the loop, and the loop goes on with the next record.
C12_Amended ==
    [][/\ (/\ LoopTurn
           /\ Current.type = "object"
           /\ Current.importance.k = "absent"
           /\ StampOk(Current))
          => AppendedWithZero
       /\ (/\ LoopTurn
           /\ Current.type = "object"
           /\ NotCoercible(Current))
          => (/\ scored_events' = scored_events
              /\ i' = i + 1
              /\ pc' = "rank"
              /\ exc' = "none")]_vars

\* the loop has scored a record without importance with P = 0 and dropped a
\* record whose importance is no number
C12_Witness ==
    /\ pc = "rank"
    /\ events.k = "list"
    /\ i = 3
    /\ events.items[1].importance.k = "absent"
    /\ NotCoercible(events.items[2])
    /\ Len(scored_events) = 1
    /\ scored_events[1].score.P = 0

\* the entry's time stamp parses to a time later than every reading of the clock
InFuture(e) ==
    /\ e.published_at.k = "str"
    /\ Strptime(e.published_at.s).exc = "none"
    /\ \A now \in NowDrift : Strptime(e.published_at.s).hours > now

\* C13: an entry whose publish time is later than the current time is scored with
\* T = 0, which is the score of an event of the same importance published exactly
\* now, and its score is never higher than that one.
C13_AgeClamp ==
    \A s \in {scored_events, hot_list_cache} :
        \A k \in DOMAIN s :
            InFuture(s[k]) =>
                /\ s[k].score.T = 0
                /\ \A now \in NowDrift :
                       LET same == Score([nan |-> s[k].score.nan, num |-> s[k].score.P],
                                         Age(now, now))
                       IN /\ s[k].score = same
                          /\ ~ScoreLt(same, s[k].score)

\* a published snapshot holds an entry with a future time stamp, scored with T = 0
C13_Witness ==
    /\ pc = "sleep"
    /\ outcome = "published"
    /\ \E k \in DOMAIN hot_list_cache :
           /\ InFuture(hot_list_cache[k])
           /\ hot_list_cache[k].score.P = 3
           /\ hot_list_cache[k].score.T = 0

\* C14: a step of a request handler leaves hot_list_cache and the whole state of
\* the scheduler as they are (so it starts no fetch and no ranking); a read made
\* while the cycle waits for the network or while the scheduler sleeps reports the
\* length and the content of the snapshot published last.
C14_ReadsArePure ==
    [][/\ rpc' # rpc => UNCHANGED schedVars
       /\ (rpc = "idle" /\ rpc' = "counted" /\ pc \in {"fetch", "sleep"})
              => reply'.item_count = Len(published)
       /\ (rpc = "counted" /\ rpc' = "responded" /\ pc \in {"fetch", "sleep"})
              => reply'.data = published]_vars

\* a read answered during the network wait of a later cycle with the snapshot
\* published before
C14_Witness ==
    /\ rpc = "responded"
    /\ reply.kind = "hot-list"
    /\ pc = "fetch"
    /\ reply.data # <<>>
    /\ reply.data = published
    /\ reply.item_count = Len(published)

\* the scheduler is inside a cycle (update_hot_list is running or has raised)
InCycle == pc \in {"call", "fetch", "rank", "sort", "publish", "except"}

\* C15: the scheduler starts with a cycle; a cycle starts only out of the sleep
\* that follows the cycle before, and a cycle ends only into a sleep, so cycles
\* never overlap; hot_list_cache is written only by the publish step of the cycle
\* in progress, so two writes are always separated by a sleep and happen in the
\* order of their cycles.
C15_SequentialWriter ==
    /\ pc = "call"
    /\ [][/\ (pc' = "call" /\ pc # "call") => pc = "sleep"
          /\ (InCycle /\ pc' # pc) => pc' \in {"fetch", "rank", "sort", "publish",
                                               "except", "sleep"}
          /\ hot_list_cache' # hot_list_cache
                => (pc = "publish" /\ pc' = "sleep" /\ UNCHANGED readVars)]_vars

\* a second cycle starts, out of the sleep, after a cycle that wrote the cache
C15_Witness ==
    /\ pc = "call"
    /\ outcome = "none"
    /\ hot_list_cache # <<>>
    /\ cache_before = hot_list_cache

\* C16: hot_list_cache is the empty sequence when the process starts and stays so
\* over every step that is not a publish, and as long as it is empty a read
\* reports item_count = 0 and empty data.
C16_InitialSnapshot ==
    /\ hot_list_cache = <<>>
    /\ [][/\ (hot_list_cache = <<>> /\ pc # "publish") => hot_list_cache' = <<>>
          /\ (hot_list_cache = <<>> /\ rpc = "idle" /\ rpc' = "counted")
                 => reply'.item_count = 0
          /\ (hot_list_cache = <<>> /\ rpc = "counted" /\ rpc' = "responded"
                 /\ reply.item_count = 0)
                 => (reply'.item_count = 0 /\ reply'.data = <<>>)]_vars

\* a read answered with nothing while a cycle that found the cache empty has
\* already scored a record and not yet published
C16_Witness ==
    /\ rpc = "responded"
    /\ reply.kind = "hot-list"
    /\ reply.item_count = 0
    /\ reply.data = <<>>
    /\ pc = "rank"
    /\ scored_events # <<>>
    /\ cache_before = <<>>
    /\ hot_list_cache = <<>>
    /\ ~after_failure

\* two floats compare equal (never so when one is NaN)
ScoreEq(a, b) == ScoreGe(a, b) /\ ScoreGe(b, a)

\* C17: when a cycle has published, any two entries of hot_list_cache with equal
\* scores stand in the order in which their events stand in the batch: the event
\* of the earlier entry is found in the batch before the event of the later one.
C17_StableTies ==
    (pc = "sleep" /\ outcome = "published" /\ FetchedBatch) =>
        \A a, b \in DOMAIN hot_list_cache :
            (a < b /\ ScoreEq(hot_list_cache[a].score, hot_list_cache[b].score)) =>
                \E m, n \in DOMAIN Batch :
                    /\ m < n
                    /\ WellFormed(Batch[m])
                    /\ WellFormed(Batch[n])
                    /\ Batch[m].group_title = hot_list_cache[a].title
                    /\ Batch[n].group_title = hot_list_cache[b].title

\* a record the per-event handler skips: an object whose importance is null or no
\* number, or whose importance is fine and whose earliest_published is a string
\* the pattern rejects
Skipped(e) ==
    /\ e.type = "object"
    /\ \/ NotCoercible(e)
       \/ /\ e.importance.k \in {"absent", "int"}
          /\ e.earliest_published.k \in {"str", "absent"}
          /\ ~StampOk(e)

\* C18: a cycle that fetched a non-empty batch of which every record is skipped
\* ends without an exception, having published the empty snapshot.
C18_AllMalformedPublishesEmpty ==
    (/\ pc = "sleep"
     /\ FetchedBatch
     /\ Batch # <<>>
     /\ \A k \in DOMAIN Batch : Skipped(Batch[k]))
    => (outcome = "published" /\ hot_list_cache = <<>> /\ published = <<>>)

\* such a cycle has replaced a snapshot that was not empty
C18_Witness ==
    /\ pc = "sleep"
    /\ FetchedBatch
    /\ Len(Batch) = 2
    /\ \A k \in DOMAIN Batch : Skipped(Batch[k])
    /\ cache_before # <<>>
    /\ outcome = "published"
    /\ hot_list_cache = <<>>

\* what a batch of well-formed records ranks to when scored at the fixed clock:
\* every record scored, the list sorted, the first 50 kept
RankingOf(b) ==
    LET now == CHOOSE t \in NowFixed : TRUE
    IN Truncate(ListSort([k \in DOMAIN b |-> ScoreOne(b[k], now).item]))

\* C19: when a cycle has fetched a batch of well-formed records, it has published,
\* and hot_list_cache is the ranking of that batch alone, whatever snapshots and
\* failed cycles came before.
C19_RecoveryAfterFailure ==
    (/\ pc = "sleep"
     /\ FetchedBatch
     /\ \A k \in DOMAIN Batch : WellFormed(Batch[k]))
    => (outcome = "published" /\ hot_list_cache = RankingOf(Batch))

\* a cycle right after a failed one has replaced a non-empty snapshot by the
\* ranking of its own batch of two
C19_Witness ==
    /\ pc = "sleep"
    /\ after_failure
    /\ FetchedBatch
    /\ Len(Batch) = 2
    /\ \A k \in DOMAIN Batch : WellFormed(Batch[k])
    /\ cache_before # <<>>
    /\ hot_list_cache # cache_before
    /\ hot_list_cache = RankingOf(Batch)

====
